---- MODULE Spec2Model ----
(***************************************************************************)
(* neural-symphony: the quick cloud deployment CLI (deploy-quick.py) and   *)
(* the Transformers inference server (scripts/transformers-server.py).     *)
(*                                                                         *)
(* Spec        the deployment CLI process: main(), deploy() and its steps. *)
(* ServerSpec  the inference server process: main(), initialize_model()    *)
(*             and the chat_completions handler.                           *)
(***************************************************************************)
EXTENDS Integers, Sequences, FiniteSets

VARIABLES
    \* ---- deploy-quick.py ----
    command,            \* sys.argv[1], or "deploy" when no argument is given
    pc,                 \* position of the CLI process
    project_id,         \* NeuralSymphonyDeployer.project_id
    scriptOnDisk,       \* whether startup-script.sh exists in the working directory
    instanceExists,     \* provider side: an instance named instance_name exists
    log,                \* steps run so far: [step, project, result]
    attempt,            \* the loop variable of wait_for_ready
    attempts,           \* remote sentinel checks issued so far
    sleeps,             \* time.sleep(10) calls made so far
    found,              \* the sentinel check returned 0
    progress,           \* attempt // 6 of the last progress report, -1 if none
    printed,            \* labelled messages printed so far
    pending,            \* what deploy() is about to return or raise
    exitStatus,         \* exit status of the process, -1 while it runs
    declined,           \* the operator declined "Delete and recreate?"
    interrupts,         \* KeyboardInterrupts delivered so far
    interruptedAt,      \* step during which the first interrupt inside try was delivered
    ranAfterInterrupt,  \* steps started after that interrupt
    \* ---- scripts/transformers-server.py ----
    pipe,               \* the module global `pipe`
    srv,                \* position of the server's main()
    srvExitStatus,      \* exit status of the server process, -1 while it runs
    responses           \* answers given by chat_completions, oldest first

deployVars == <<command, pc, project_id, scriptOnDisk, instanceExists, log, attempt,
                attempts, sleeps, found, progress, printed, pending, exitStatus,
                declined, interrupts, interruptedAt, ranAfterInterrupt>>

serverVars == <<pipe, srv, srvExitStatus, responses>>

vars == <<deployVars, serverVars>>

----------------------------------------------------------------------------
(* Bounds of the model *)

\* KeyboardInterrupts the operator delivers during one run
MaxInterrupts == 1

\* chat-completion requests answered during one run of the server
MaxRequests == 2

----------------------------------------------------------------------------
(* deploy-quick.py: constants and pure helpers *)

\* Python's None, as the value of an attribute or a global
None == "<None>"

instance_name == "neural-symphony-gpu"

zone == "us-east4-a"

max_attempts == 100

\* f'--project={self.project_id}': an unset project_id is formatted as "None"
ProjectArg(p) == IF p = None THEN "None" ELSE p

Commands == {"deploy", "status", "clean", "bogus"}

\* what the operator may type at "Delete and recreate? (y/N): "
PromptInputs == {"y", "Y", " y ", "n", "", "yes"}

\* str.strip().lower() on the inputs above
StripLower(s) ==
    CASE s = "y"   -> "y"
      [] s = "Y"   -> "y"
      [] s = " y " -> "y"
      [] s = "n"   -> "n"
      [] s = ""    -> ""
      [] s = "yes" -> "yes"

\* text read from gcloud's stdout or typed at a prompt
Texts == {"", "\n", "my-project\n"}

\* str.strip() on the texts above
Strip(s) ==
    CASE s = ""             -> ""
      [] s = "\n"           -> ""
      [] s = "my-project\n" -> "my-project"

RepoInputs == {"", " ", "https://github.com/user/repo.git"}

StripRepo(s) == IF s = " " THEN "" ELSE s

\* outcomes of a step: the given ones, or a KeyboardInterrupt raised during it
Outcomes(S) == S \cup (IF interrupts < MaxInterrupts THEN {"interrupt"} ELSE {})

\* one more entry of the step log; project is the value of project_id when the
\* step runs, as the provider calls format it into --project=
Logged(l, step, result) ==
    Append(l, [step |-> step, instance |-> instance_name, zone |-> zone,
               project |-> ProjectArg(project_id), result |-> result])

\* bookkeeping of interrupts: which step the first interrupt inside deploy()'s try
\* hit, and which steps were started after it
Track(step, result) ==
    /\ interrupts' = IF result = "interrupt" THEN interrupts + 1 ELSE interrupts
    /\ interruptedAt' = IF result = "interrupt" /\ interruptedAt = "none"
                        THEN step ELSE interruptedAt
    /\ ranAfterInterrupt' = IF interruptedAt # "none"
                            THEN ranAfterInterrupt \cup {step}
                            ELSE ranAfterInterrupt

NoTrack == UNCHANGED <<interrupts, interruptedAt, ranAfterInterrupt>>

\* AfterStep with the instance creation and the firewall setup exchanged
AfterStepSwapped(step) ==
    CASE step = "enable_apis"           -> "create_startup_script"
      [] step = "create_startup_script" -> "setup_firewall"
      [] step = "setup_firewall"        -> "create_instance"
      [] step = "create_instance"       -> "poll"

\* the statement that follows a step of deploy()'s try block when the step
\* returns (lines 331-335); "poll" is the first statement of wait_for_ready
AfterStep(step) ==
    CASE step = "enable_apis"           -> "create_startup_script"
      [] step = "create_startup_script" -> "create_instance"
      [] step = "create_instance"       -> "setup_firewall"
      [] step = "setup_firewall"        -> "poll"

\* an exception leaving a step of deploy()'s try block: which handler takes it
Handler(result) ==
    IF result = "interrupt" THEN "except_KeyboardInterrupt" ELSE "except_Exception"

\* Cleanup with the removal left out
CleanupSkipped(onDisk) == onDisk

\* the finally clause of deploy(): remove startup-script.sh if it exists
Cleanup(onDisk) == IF onDisk THEN FALSE ELSE onDisk

\* the exit status main() ends with, given what deploy() returned or raised
ExitStatusOf(p) == IF p = "SystemExit" THEN 1 ELSE 0

----------------------------------------------------------------------------
(* Initial state: both processes freshly started *)

DeployInit ==
    /\ command \in Commands
    /\ pc = "main"
    /\ project_id = None
    /\ scriptOnDisk = FALSE
    /\ instanceExists \in BOOLEAN
    /\ log = << >>
    /\ attempt = 0
    /\ attempts = 0
    /\ sleeps = 0
    /\ found = FALSE
    /\ progress = -1
    /\ printed = {}
    /\ pending = "none"
    /\ exitStatus = -1
    /\ declined = FALSE
    /\ interrupts = 0
    /\ interruptedAt = "none"
    /\ ranAfterInterrupt = {}

ServerInit ==
    /\ pipe = None
    /\ srv = "start"
    /\ srvExitStatus = -1
    /\ responses = << >>

Init == DeployInit /\ ServerInit

----------------------------------------------------------------------------
(* deploy-quick.py: main() *)

pollVars == <<attempt, attempts, sleeps, found, progress>>

\* python deploy-quick.py status
MainStatus ==
    /\ pc = "main"
    /\ command = "status"
    /\ \E r \in {"zero", "nonzero"} :
         log' = Logged(log, "instances describe ip", r)
    /\ pc' = "done"
    /\ exitStatus' = 0
    /\ UNCHANGED <<command, project_id, scriptOnDisk, instanceExists, pollVars,
                   printed, pending, declined>>
    /\ NoTrack
    /\ UNCHANGED serverVars

\* python deploy-quick.py clean
MainClean ==
    /\ pc = "main"
    /\ command = "clean"
    /\ \E r \in {"zero", "nonzero"} :
         /\ log' = Logged(log, "instances delete", r)
         /\ instanceExists' = IF r = "zero" THEN FALSE ELSE instanceExists
    /\ pc' = "done"
    /\ exitStatus' = 0
    /\ UNCHANGED <<command, project_id, scriptOnDisk, pollVars, printed, pending,
                   declined>>
    /\ NoTrack
    /\ UNCHANGED serverVars

\* python deploy-quick.py <anything else>
MainUsage ==
    /\ pc = "main"
    /\ command \notin {"deploy", "status", "clean"}
    /\ printed' = printed \cup {"Usage: python deploy-quick.py [status|clean]"}
    /\ pc' = "done"
    /\ exitStatus' = 0
    /\ UNCHANGED <<command, project_id, scriptOnDisk, instanceExists, log, pollVars,
                   pending, declined>>
    /\ NoTrack
    /\ UNCHANGED serverVars

----------------------------------------------------------------------------
(* deploy-quick.py: deploy() and its steps *)

\* deploy() up to the end of check_gcloud(); a False there is returned to main(),
\* which drops it and ends normally
CheckGcloud ==
    /\ pc = "main"
    /\ command = "deploy"
    /\ \E auth \in Outcomes({"zero", "nonzero", "notfound"}),
          cfg \in {"zero", "nonzero"}, out \in Texts, typed \in Texts :
         LET l1 == Logged(log, "auth list", auth)
             l2 == Logged(l1, "config get-value project", cfg)
             fromCfg == cfg = "zero" /\ Strip(out) # ""
             ok == auth = "zero" /\ (fromCfg \/ Strip(typed) # "")
             msg == CASE auth = "interrupt" -> {}
                      [] auth = "nonzero" ->
                           {"[ERROR] gcloud is not installed or not authenticated"}
                      [] auth = "notfound" -> {"[ERROR] gcloud command not found"}
                      [] auth = "zero" /\ fromCfg -> {"[SUCCESS] Using project"}
                      [] auth = "zero" /\ ~fromCfg /\ Strip(typed) = "" ->
                           {"[ERROR] Project ID is required"}
                      [] OTHER -> {}
         IN  /\ log' = IF auth = "zero" THEN l2 ELSE l1
             /\ printed' = printed \cup msg
             /\ project_id' = IF ~ok THEN project_id
                              ELSE IF fromCfg THEN Strip(out) ELSE Strip(typed)
             /\ pending' = IF auth = "interrupt" THEN "KeyboardInterrupt"
                           ELSE IF ok THEN pending ELSE "False"
             /\ pc' = IF ok THEN "enable_apis" ELSE "done"
             /\ exitStatus' = IF auth = "interrupt" THEN 130
                              ELSE IF ok THEN exitStatus ELSE ExitStatusOf("False")
             /\ interrupts' = IF auth = "interrupt" THEN interrupts + 1 ELSE interrupts
    /\ UNCHANGED <<command, scriptOnDisk, instanceExists, pollVars, declined,
                   interruptedAt, ranAfterInterrupt>>
    /\ UNCHANGED serverVars

\* enable_apis(): two `services enable` calls with check=True
EnableApis ==
    /\ pc = "enable_apis"
    /\ \E r1 \in Outcomes({"zero", "nonzero"}), r2 \in Outcomes({"zero", "nonzero"}) :
         LET l1 == Logged(log, "services enable", r1)
             final == IF r1 = "zero" THEN r2 ELSE r1
         IN  /\ log' = IF r1 = "zero" THEN Logged(l1, "services enable", r2) ELSE l1
             /\ printed' = IF final = "zero"
                           THEN printed \cup {"[SUCCESS] APIs enabled"} ELSE printed
             /\ pc' = IF final = "zero" THEN AfterStep("enable_apis") ELSE Handler(final)
             /\ Track("enable_apis", final)
    /\ UNCHANGED <<command, project_id, scriptOnDisk, instanceExists, pollVars,
                   pending, exitStatus, declined>>
    /\ UNCHANGED serverVars

\* create_startup_script(): open('startup-script.sh', 'w') and write
CreateStartupScript ==
    /\ pc = "create_startup_script"
    /\ \E r \in Outcomes({"zero", "raised"}), created \in BOOLEAN :
         /\ scriptOnDisk' = IF r = "zero" THEN TRUE ELSE created
         /\ log' = Logged(log, "write script", r)
         /\ printed' = IF r = "zero"
                       THEN printed \cup {"[SUCCESS] Startup script created"}
                       ELSE printed
         /\ pc' = IF r = "zero" THEN AfterStep("create_startup_script") ELSE Handler(r)
         /\ Track("create_startup_script", r)
    /\ UNCHANGED <<command, project_id, instanceExists, pollVars, pending,
                   exitStatus, declined>>
    /\ UNCHANGED serverVars

\* create_instance(): the existence check; whatever it raises is swallowed by the
\* bare except of lines 189-190
DescribeInstance ==
    /\ pc = "create_instance"
    /\ \E r \in Outcomes({"zero", "nonzero", "raised"}) :
         /\ r = "zero" => instanceExists
         /\ log' = Logged(log, "instances describe", r)
         /\ printed' = IF r = "zero"
                       THEN printed \cup {"[WARNING] Instance already exists!"}
                       ELSE printed
         /\ pc' = IF r = "zero" THEN "prompt_recreate" ELSE "create"
         /\ Track("instances describe", r)
    /\ UNCHANGED <<command, project_id, scriptOnDisk, instanceExists, pollVars,
                   pending, exitStatus, declined>>
    /\ UNCHANGED serverVars

\* create_instance(): input("Delete and recreate? (y/N): "), inside the same try
PromptRecreate ==
    /\ pc = "prompt_recreate"
    /\ \E r \in Outcomes({"zero", "raised"}), typed \in PromptInputs :
         LET yes == StripLower(typed) = "y"
         IN  /\ log' = Logged(log, "prompt recreate", r)
             /\ declined' = IF r = "zero" /\ ~yes THEN TRUE ELSE declined
             /\ pc' = IF r # "zero" THEN "create"
                      ELSE IF yes THEN "delete" ELSE AfterStep("create_instance")
             /\ Track("prompt recreate", r)
    /\ UNCHANGED <<command, project_id, scriptOnDisk, instanceExists, pollVars,
                   printed, pending, exitStatus>>
    /\ UNCHANGED serverVars

\* create_instance(): delete the existing instance; the exit status is not looked at
DeleteInstance ==
    /\ pc = "delete"
    /\ \E r \in Outcomes({"zero", "nonzero", "raised"}) :
         /\ log' = Logged(log, "instances delete", r)
         /\ instanceExists' = IF r = "zero" THEN FALSE ELSE instanceExists
         /\ Track("instances delete", r)
    /\ pc' = "create"
    /\ UNCHANGED <<command, project_id, scriptOnDisk, pollVars, printed, pending,
                   exitStatus, declined>>
    /\ UNCHANGED serverVars

\* create_instance(): the creation request; a non-zero exit ends in sys.exit(1)
CreateInstance ==
    /\ pc = "create"
    /\ \E r \in Outcomes({"zero", "nonzero", "raised"}), quota \in BOOLEAN :
         /\ r = "zero" => ~instanceExists
         /\ log' = Logged(log, "instances create", r)
         /\ instanceExists' = IF r = "zero" THEN TRUE ELSE instanceExists
         /\ printed' = printed \cup
               (CASE r = "zero" -> {"[SUCCESS] Instance created!"}
                  [] r = "nonzero" ->
                       {"[ERROR] Failed to create instance"} \cup
                       (IF quota THEN {"[WARNING] GPU quota exceeded"} ELSE {})
                  [] OTHER -> {})
         /\ pending' = IF r = "nonzero" THEN "SystemExit" ELSE pending
         /\ pc' = CASE r = "zero" -> AfterStep("create_instance")
                    [] r = "nonzero" -> "finally"
                    [] OTHER -> Handler(r)
         /\ Track("instances create", r)
    /\ UNCHANGED <<command, project_id, scriptOnDisk, pollVars, exitStatus, declined>>
    /\ UNCHANGED serverVars

\* setup_firewall(): the exit status is not looked at and the bare except swallows
\* whatever the call raises
SetupFirewall ==
    /\ pc = "setup_firewall"
    /\ \E r \in Outcomes({"zero", "nonzero", "raised"}) :
         /\ log' = Logged(log, "firewall-rules create", r)
         /\ Track("firewall-rules create", r)
    /\ printed' = printed \cup {"[SUCCESS] Firewall configured"}
    /\ pc' = AfterStep("setup_firewall")
    /\ UNCHANGED <<command, project_id, scriptOnDisk, instanceExists, pollVars,
                   pending, exitStatus, declined>>
    /\ UNCHANGED serverVars

----------------------------------------------------------------------------
(* deploy-quick.py: wait_for_ready() *)

\* HasNextAttempt with the bound off by one
HasNextAttemptOffByOne(a) == a + 1 <= max_attempts

\* `for attempt in range(max_attempts)`: whether the loop has an iteration after a
HasNextAttempt(a) == a + 1 < max_attempts

\* `if result.returncode == 0`: the sentinel check succeeded
SentinelFound(r) == r = "zero"

\* AfterAttempt without the break
AfterAttemptNoBreak(r) == "sleep"

\* where an attempt leaves wait_for_ready: `break` on success (line 258), else the
\* progress report and the sleep
AfterAttempt(r) == IF SentinelFound(r) THEN "prompt_repo" ELSE "sleep"

\* one remote sentinel check (lines 249-266); a failed check of any kind, a
\* KeyboardInterrupt included, falls through to the progress report and the sleep
PollAttempt ==
    /\ pc = "poll"
    /\ \E r \in Outcomes({"zero", "nonzero", "timeout", "raised"}) :
         /\ attempts' = attempts + 1
         /\ found' = SentinelFound(r)
         /\ printed' = IF SentinelFound(r)
                       THEN printed \cup {"[SUCCESS] Setup completed!"} ELSE printed
         /\ progress' = IF ~SentinelFound(r) /\ attempt % 6 = 0
                        THEN attempt \div 6 ELSE progress
         /\ pc' = AfterAttempt(r)
         /\ Track("ssh poll", r)
    /\ UNCHANGED <<command, project_id, scriptOnDisk, instanceExists, log, attempt,
                   sleeps, pending, exitStatus, declined>>
    /\ UNCHANGED serverVars

\* time.sleep(10) (line 268), then the next iteration or the loop's else clause
Sleep ==
    /\ pc = "sleep"
    /\ \E r \in Outcomes({"zero"}) :
         /\ sleeps' = sleeps + 1
         /\ attempt' = IF r = "zero" /\ HasNextAttempt(attempt)
                       THEN attempt + 1 ELSE attempt
         /\ printed' = IF r = "zero" /\ ~HasNextAttempt(attempt)
                       THEN printed \cup {"[WARNING] Setup may still be in progress"}
                       ELSE printed
         /\ pc' = IF r # "zero" THEN Handler(r)
                  ELSE IF HasNextAttempt(attempt) THEN "poll" ELSE "prompt_repo"
         /\ Track("sleep", r)
    /\ UNCHANGED <<command, project_id, scriptOnDisk, instanceExists, log, attempts,
                   found, progress, pending, exitStatus, declined>>
    /\ UNCHANGED serverVars

----------------------------------------------------------------------------
(* deploy-quick.py: the rest of deploy() *)

\* input("Enter your private GitHub repo URL ...").strip()
PromptRepo ==
    /\ pc = "prompt_repo"
    /\ \E r \in Outcomes({"zero", "raised"}), typed \in RepoInputs :
         /\ log' = Logged(log, "prompt repo", r)
         /\ pc' = IF r # "zero" THEN Handler(r)
                  ELSE IF StripRepo(typed) # ""
                       THEN "setup_continuous_deployment" ELSE "show_results"
         /\ Track("prompt repo", r)
    /\ UNCHANGED <<command, project_id, scriptOnDisk, instanceExists, pollVars,
                   printed, pending, exitStatus, declined>>
    /\ UNCHANGED serverVars

\* setup_continuous_deployment(): one remote command, exit status not looked at
SetupContinuousDeployment ==
    /\ pc = "setup_continuous_deployment"
    /\ \E r \in Outcomes({"zero", "nonzero", "raised"}) :
         LET returned == r \in {"zero", "nonzero"}
         IN  /\ log' = Logged(log, "ssh deploy", r)
             /\ printed' = IF returned
                           THEN printed \cup {"[SUCCESS] Continuous deployment configured!"}
                           ELSE printed
             /\ pc' = IF returned THEN "show_results" ELSE Handler(r)
             /\ Track("ssh deploy", r)
    /\ UNCHANGED <<command, project_id, scriptOnDisk, instanceExists, pollVars,
                   pending, exitStatus, declined>>
    /\ UNCHANGED serverVars

\* show_results(): get_instance_ip() and the report; then deploy() returns True
ShowResults ==
    /\ pc = "show_results"
    /\ \E r \in Outcomes({"zero", "nonzero", "raised"}) :
         LET returned == r \in {"zero", "nonzero"}
         IN  /\ log' = Logged(log, "instances describe ip", r)
             /\ printed' = IF returned
                           THEN printed \cup {"Neural Symphony deployed successfully!"}
                           ELSE printed
             /\ pending' = IF returned THEN "True" ELSE pending
             /\ pc' = IF returned THEN "finally" ELSE Handler(r)
             /\ Track("show_results", r)
    /\ UNCHANGED <<command, project_id, scriptOnDisk, instanceExists, pollVars,
                   exitStatus, declined>>
    /\ UNCHANGED serverVars

\* except KeyboardInterrupt (lines 346-348)
ExceptKeyboardInterrupt ==
    /\ pc = "except_KeyboardInterrupt"
    /\ printed' = printed \cup {"[ERROR] Deployment cancelled"}
    /\ pending' = "False"
    /\ pc' = "finally"
    /\ UNCHANGED <<command, project_id, scriptOnDisk, instanceExists, log, pollVars,
                   exitStatus, declined>>
    /\ NoTrack
    /\ UNCHANGED serverVars

\* except Exception (lines 349-351)
ExceptException ==
    /\ pc = "except_Exception"
    /\ printed' = printed \cup {"[ERROR] Deployment failed"}
    /\ pending' = "False"
    /\ pc' = "finally"
    /\ UNCHANGED <<command, project_id, scriptOnDisk, instanceExists, log, pollVars,
                   exitStatus, declined>>
    /\ NoTrack
    /\ UNCHANGED serverVars

\* finally (lines 352-355), then the return or the SystemExit reaches main()
Finally ==
    /\ pc = "finally"
    /\ scriptOnDisk' = Cleanup(scriptOnDisk)
    /\ pc' = "done"
    /\ exitStatus' = ExitStatusOf(pending)
    /\ UNCHANGED <<command, project_id, instanceExists, log, pollVars, printed,
                   pending, declined>>
    /\ NoTrack
    /\ UNCHANGED serverVars

Next ==
    \/ MainStatus
    \/ MainClean
    \/ MainUsage
    \/ CheckGcloud
    \/ EnableApis
    \/ CreateStartupScript
    \/ DescribeInstance
    \/ PromptRecreate
    \/ DeleteInstance
    \/ CreateInstance
    \/ SetupFirewall
    \/ PollAttempt
    \/ Sleep
    \/ PromptRepo
    \/ SetupContinuousDeployment
    \/ ShowResults
    \/ ExceptKeyboardInterrupt
    \/ ExceptException
    \/ Finally

Spec == Init /\ [][Next]_vars

----------------------------------------------------------------------------
(* scripts/transformers-server.py *)

\* the messages a request body may carry under "messages"
Message == [role |-> "user", content |-> "hello"]

MessageLists == {<< >>, <<Message>>, <<Message, Message>>}

\* request bodies: JSON objects with or without "messages" and "max_tokens"
Requests ==
    {[max_tokens |-> 16]}
       \cup {[messages |-> m] : m \in MessageLists}
       \cup {[messages |-> m, max_tokens |-> 16] : m \in MessageLists}

\* dict.get(key, default)
Get(request, key, default) == IF key \in DOMAIN request THEN request[key] ELSE default

\* `not messages` on a list
IsEmpty(messages) == Len(messages) = 0

\* ModelNotInitialized with the sense of the test inverted
ModelNotInitializedInverted(p) == p # None

\* `if pipe is None` (line 65)
ModelNotInitialized(p) == p = None

\* the load state machine, read off main()'s position and the global `pipe`
LoadState ==
    CASE srv = "start" -> "Uninitialized"
      [] srv = "loading" -> "Loading"
      [] srv \in {"failed", "exited"} -> "FailedToLoad"
      [] srv \in {"loaded", "serving"} -> "Ready"

\* the try block of chat_completions (lines 69-107): what it raises or returns,
\* and whether pipe(prompt, ...) was called. templateOk and generateOk say whether
\* apply_chat_template and the generation call return or raise; reading
\* pipe.tokenizer of an unset pipe raises too.
TryBlock(p, request, templateOk, generateOk) ==
    LET messages == Get(request, "messages", << >>)
    IN  IF IsEmpty(messages)
        THEN [raised |-> "HTTPException", status |-> 400,
              detail |-> "No messages provided", generated |-> FALSE]
        ELSE IF p = None \/ ~templateOk
        THEN [raised |-> "Exception", status |-> 0,
              detail |-> "template error", generated |-> FALSE]
        ELSE IF ~generateOk
        THEN [raised |-> "Exception", status |-> 0,
              detail |-> "generation error", generated |-> TRUE]
        ELSE [raised |-> "no", status |-> 200, detail |-> "", generated |-> TRUE]

\* `except Exception as e` (line 109): HTTPException is a subclass of Exception
CaughtByExceptException(kind) == kind \in {"Exception", "HTTPException"}

\* str(e) of what the try block raised
StrOf(t) ==
    IF t.raised = "HTTPException" THEN "400: No messages provided" ELSE t.detail

\* chat_completions: the status it answers with, the detail of the error, and
\* whether the generation call was made
ChatCompletionsResult(p, request, templateOk, generateOk) ==
    IF ModelNotInitialized(p)
    THEN [status |-> 503, detail |-> "Model not initialized", generated |-> FALSE]
    ELSE LET t == TryBlock(p, request, templateOk, generateOk)
         IN  IF CaughtByExceptException(t.raised)
             THEN [status |-> 500, detail |-> StrOf(t), generated |-> t.generated]
             ELSE [status |-> t.status, detail |-> t.detail, generated |-> t.generated]

\* main() calls initialize_model() (line 129)
BeginInitialize ==
    /\ srv = "start"
    /\ srv' = "loading"
    /\ UNCHANGED <<pipe, srvExitStatus, responses>>
    /\ UNCHANGED deployVars

\* initialize_model() returns: True with `pipe` set, or False after an exception
FinishInitialize ==
    /\ srv = "loading"
    /\ \E ok \in BOOLEAN :
         /\ pipe' = IF ok THEN "pipeline" ELSE pipe
         /\ srv' = IF ok THEN "loaded" ELSE "failed"
    /\ UNCHANGED <<srvExitStatus, responses>>
    /\ UNCHANGED deployVars

\* main() after a successful load: uvicorn.run(app, ...)
Serve ==
    /\ srv = "loaded"
    /\ srv' = "serving"
    /\ UNCHANGED <<pipe, srvExitStatus, responses>>
    /\ UNCHANGED deployVars

\* main() after a failed load: exit(1)
ExitAfterFailure ==
    /\ srv = "failed"
    /\ srv' = "exited"
    /\ srvExitStatus' = 1
    /\ UNCHANGED <<pipe, responses>>
    /\ UNCHANGED deployVars

\* POST /v1/chat/completions, delivered to `app` while the process is alive
ChatCompletions ==
    /\ srv # "exited"
    /\ Len(responses) < MaxRequests
    /\ \E request \in Requests, templateOk \in BOOLEAN, generateOk \in BOOLEAN :
         LET res == ChatCompletionsResult(pipe, request, templateOk, generateOk)
         IN  responses' = Append(responses,
                 [state |-> LoadState,
                  nmessages |-> Len(Get(request, "messages", << >>)),
                  status |-> res.status,
                  detail |-> res.detail,
                  generated |-> res.generated])
    /\ UNCHANGED <<pipe, srv, srvExitStatus>>
    /\ UNCHANGED deployVars

ServerNext ==
    \/ BeginInitialize
    \/ FinishInitialize
    \/ Serve
    \/ ExitAfterFailure
    \/ ChatCompletions

ServerSpec == Init /\ [][ServerNext]_vars

----------------------------------------------------------------------------
(* Properties *)

Steps == {log[i].step : i \in 1..Len(log)}

Warned == "[WARNING] Setup may still be in progress" \in printed

ToolingErrors ==
    {"[ERROR] gcloud is not installed or not authenticated",
     "[ERROR] gcloud command not found",
     "[ERROR] Project ID is required"}

ToolingFailed == printed \cap ToolingErrors # {}

CreationRejected == "[ERROR] Failed to create instance" \in printed

\* C1: a request with an empty or absent message list, made while the model is
\* loaded, is answered 400 and never reaches the generation call.
C1_EmptyMessagesAnswered400 ==
    \A i \in 1..Len(responses) :
        (responses[i].state = "Ready" /\ responses[i].nmessages = 0)
            => (responses[i].status = 400 /\ ~responses[i].generated)

\* C2: once an interrupt has been delivered inside deploy()'s try block, no
\* later workflow step runs and the run ends with "Deployment cancelled".
C2_InterruptCancelsDeployment ==
    /\ ranAfterInterrupt = {}
    /\ (pc = "done" /\ interruptedAt # "none")
           => "[ERROR] Deployment cancelled" \in printed

\* C3: after the operator declines recreation no deletion and no creation is
\* requested and no later step (firewall, polling, remote deployment command,
\* reporting) is performed.
C3_DeclineAbortsWorkflow ==
    declined =>
        /\ Steps \cap {"instances delete", "instances create"} = {}
        /\ Steps \cap {"firewall-rules create", "prompt repo", "ssh deploy",
                       "instances describe ip"} = {}
        /\ attempts = 0

\* C4: when the deploy workflow has terminated, on whichever exit path,
\* startup-script.sh is not on disk.
C4_ScriptAbsentAfterDeploy ==
    (pc = "done" /\ command = "deploy") => ~scriptOnDisk

\* C4 witness: the script was written, the creation request was rejected
\* (sys.exit(1)) and the run is over.
C4_Witness ==
    /\ pc = "done"
    /\ pending = "SystemExit"
    /\ \E i \in 1..Len(log) : log[i].step = "write script" /\ log[i].result = "zero"

\* C5: a failed tooling check or a rejected creation request ends the run at
\* once with a labelled error and a non-zero exit status; after a failed tooling
\* check no provider call beyond the check's own has been issued.
C5_FatalFailuresExitNonZero ==
    /\ (pc = "done" /\ command = "deploy" /\ (ToolingFailed \/ CreationRejected))
           => exitStatus # 0
    /\ ToolingFailed =>
           (pc = "done" /\ Steps \subseteq {"auth list", "config get-value project"})
    /\ CreationRejected =>
           (/\ pc \in {"finally", "done"}
            /\ log[Len(log)].step = "instances create"
            /\ attempts = 0)

\* C6: without a successful sentinel check the poller returns only after
\* exactly max_attempts attempts, with the warning printed, and a failed
\* attempt never takes the workflow to an exception handler: it goes on to
\* the repository prompt and the report.
C6_ExhaustionAfterMaxAttempts ==
    /\ attempts <= max_attempts
    /\ (pc = "prompt_repo" /\ ~found) => (attempts = max_attempts /\ Warned)
    /\ Warned => (attempts = max_attempts /\ sleeps = max_attempts /\ ~found)
    /\ pc = "except_Exception" => log[Len(log)].step # "firewall-rules create"

\* C6 witness: max_attempts failed checks, the warning, and the report printed.
C6_Witness ==
    /\ pc = "done"
    /\ attempts = max_attempts
    /\ Warned
    /\ "Neural Symphony deployed successfully!" \in printed

\* C7: a success on attempt k ends the poller there: k attempts, k-1 sleeps,
\* nothing after it and no warning; every failed attempt is followed by one sleep.
C7_StopsAtFirstSuccess ==
    /\ found => (/\ attempts = attempt + 1
                 /\ sleeps = attempts - 1
                 /\ ~Warned
                 /\ pc \notin {"poll", "sleep"})
    /\ pc = "poll" => (sleeps = attempts /\ attempts = attempt)
    /\ pc = "sleep" => (sleeps = attempts - 1 /\ attempts = attempt + 1)

\* C7 witness: the sentinel was found after several failed attempts and the run
\* is over.
C7_Witness ==
    /\ pc = "done"
    /\ found
    /\ attempts = 7
    /\ sleeps = 6

\* C8: `clean` issues exactly one provider call, a deletion addressed to the
\* configured instance, zone and project (a real project, not the unset one).
C8_CleanDeletesConfiguredInstance ==
    (pc = "done" /\ command = "clean") =>
        /\ Len(log) = 1
        /\ log[1].step = "instances delete"
        /\ log[1].instance = instance_name
        /\ log[1].zone = zone
        /\ log[1].project # "None"

\* C9: outside Ready every chat-completion request is answered 503 without a
\* generation call, and the process serves only with a loaded model: after a
\* failed load it exits with status 1.
C9_OnlyReadyServes ==
    /\ \A i \in 1..Len(responses) :
           responses[i].state # "Ready"
               => (responses[i].status = 503 /\ ~responses[i].generated)
    /\ srv = "serving" => pipe # None
    /\ srv = "exited" => (pipe = None /\ srvExitStatus = 1)

\* C9 witness: a request with messages was refused while loading, another after
\* the load had failed, and the process has exited.
C9_Witness ==
    /\ srv = "exited"
    /\ Len(responses) = 2
    /\ responses[1].state = "Loading" /\ responses[1].nmessages > 0
    /\ responses[1].status = 503
    /\ responses[2].state = "FailedToLoad" /\ responses[2].nmessages > 0
    /\ responses[2].status = 503

\* C10: a non-zero exit of API enablement, of the deletion of the existing
\* instance or of the creation request is the last step of the workflow.
C10_NonZeroExitAborts ==
    \A i \in 1..Len(log) :
        (/\ command = "deploy"
         /\ log[i].step \in {"services enable", "instances delete", "instances create"}
         /\ log[i].result = "nonzero")
            => (i = Len(log) /\ attempts = 0)

\* the workflow step a log entry belongs to, in the order deploy() names them:
\* 0 tooling check, 1 API enablement, 2 script generation, 3 instance creation
\* step, 4 firewall setup, 6 what follows the polling (5), 7 reporting
Phase(step) ==
    CASE step \in {"auth list", "config get-value project"} -> 0
      [] step = "services enable" -> 1
      [] step = "write script" -> 2
      [] step \in {"instances describe", "prompt recreate", "instances delete",
                   "instances create"} -> 3
      [] step = "firewall-rules create" -> 4
      [] step \in {"prompt repo", "ssh deploy"} -> 6
      [] step = "instances describe ip" -> 7

\* a log entry whose step ended by an exception or sys.exit leaving the step
FailedFatally(e) ==
    \/ e.step \in {"services enable", "instances create"}
         /\ e.result \in {"nonzero", "raised", "interrupt"}
    \/ e.step \in {"write script", "prompt repo", "ssh deploy", "instances describe ip"}
         /\ e.result \in {"raised", "interrupt"}

Entries(step, result) ==
    {i \in 1..Len(log) : log[i].step = step /\ log[i].result = result}

\* the instance creation step returned: the creation succeeded or the operator
\* declined the recreation
CreateStepCompleted == Entries("instances create", "zero") # {} \/ declined

\* wait_for_ready returned: by success or by exhaustion
PollingCompleted == found \/ (attempts = max_attempts /\ Warned)

\* C11: the steps of deploy() run in strict sequence: API enablement, script
\* generation, the instance creation step, firewall setup, readiness polling,
\* reporting; a step starts only after its predecessor has completed, and
\* nothing starts after a step that failed fatally.
C11_StrictSequence ==
    command = "deploy" =>
        /\ \A i, j \in 1..Len(log) : i < j => Phase(log[i].step) <= Phase(log[j].step)
        /\ \A i \in 1..Len(log) :
               /\ Phase(log[i].step) >= 2 =>
                      Cardinality({k \in Entries("services enable", "zero") : k < i}) = 2
               /\ Phase(log[i].step) >= 3 =>
                      \E k \in Entries("write script", "zero") : k < i
               /\ Phase(log[i].step) >= 4 => CreateStepCompleted
               /\ Phase(log[i].step) >= 6 =>
                      (PollingCompleted /\ "firewall-rules create" \in Steps)
               /\ FailedFatally(log[i]) => (i = Len(log) /\ pc \notin {"poll", "sleep"})
        /\ attempts > 0 =>
               /\ "firewall-rules create" \in Steps
               /\ pc \notin {"main", "enable_apis", "create_startup_script",
                             "create_instance", "prompt_recreate", "delete", "create",
                             "setup_firewall"}
        /\ pc \in {"poll", "sleep"} =>
               (/\ log # << >>
                /\ log[Len(log)].step = "firewall-rules create")

\* C11 witness: a full run, each step after the one before it, the sentinel
\* found after some failed attempts, and the report printed.
C11_Witness ==
    /\ pc = "done"
    /\ pending = "True"
    /\ found
    /\ attempts = 3
    /\ [i \in 1..Len(log) |-> log[i].step] =
           <<"auth list", "config get-value project", "services enable",
             "services enable", "write script", "instances describe",
             "instances create", "firewall-rules create", "prompt repo",
             "instances describe ip">>

====
